---- MODULE Spec2Model ----
(***************************************************************************)
(* archivanima: the chunked upload subsystem.                              *)
(*                                                                         *)
(* The ledger (table uploads), the private and public storage directories, *)
(* the four request handlers of src/app/api.rs and the stale-upload        *)
(* sweeper of src/main.rs.  Every SQL statement and every storage call is  *)
(* one step.  pool.begin() asks for no isolation level and the SELECT of a *)
(* status update takes no row lock, so a transaction is READ COMMITTED:    *)
(* its SELECT and its UPDATE+COMMIT are two steps that other statements    *)
(* may come between.                                                       *)
(***************************************************************************)
EXTENDS Integers, Sequences, FiniteSets, TLC

\* ---------------------------------------------------------------- bounds
MaxUploads == 1
MaxProcs == 2
MaxRequests == 3
MaxSweeps == 1
MaxSize == 1
MaxPageSize == 1
NumSweepers == 1
\* the sweeper on its own, over a ledger that sequential requests have built
SweepMaxUploads == 2
SweepMaxRequests == 4
SweepMaxSweeps == 2
SweepMaxPageSize == 2
SweepNumSweepers == 2
\* one client alone: sequential requests on one upload, no sweeper
SoloMaxRequests == 5
SoloMaxSize == 2
\* the page stream: creations build a ledger of three rows for one sweeper
PageMaxUploads == 3
PageMaxRequests == 3
PageMaxSweeps == 1
PageMaxPageSize == 2
\* repeated passes: one sweeper runs pass after pass over the ledger
LiveMaxSweeps == 2

\* -------------------------------------------------------------- universe
Max(a, b) == IF a >= b THEN a ELSE b

Procs == 1..MaxProcs
Sweepers == 1..Max(NumSweepers, SweepNumSweepers)
Ids == 1..Max(Max(MaxUploads, SweepMaxUploads), PageMaxUploads)
Users == {"author", "other"}
Posts == {1}
PostIds == {1, 2}
ByteVals == {1}
Extensions == {"bin"}
Star == -1
Absent == <<-1>>

PostAuthor(post_id) == "author"

UploadStatus ==
    {"Initialized", "Allocated", "Writing", "Publishing", "Published",
     "Hiding", "Hidden", "Missing"}

\* ---------------------------------------------------------- state machine
CanTransitionToNoHidden(self, new_status) ==
    CASE new_status = "Initialized" -> FALSE
      [] new_status = "Allocated" -> self = "Initialized" \/ self = "Writing"
      [] new_status = "Writing" -> self = "Allocated"
      [] new_status = "Publishing" -> self = "Allocated"
      [] new_status = "Published" -> self = "Publishing"
      [] new_status = "Hiding" -> self = "Published"
      [] new_status = "Hidden" -> self = "Hiding"
      [] new_status = "Missing" -> TRUE

CanTransitionTo(self, new_status) ==
    CASE new_status = "Initialized" -> FALSE
      [] new_status = "Allocated" -> self = "Initialized" \/ self = "Writing"
      [] new_status = "Writing" -> self = "Allocated"
      [] new_status = "Publishing" -> self = "Allocated" \/ self = "Hidden"
      [] new_status = "Published" -> self = "Publishing"
      [] new_status = "Hiding" -> self = "Published"
      [] new_status = "Hidden" -> self = "Hiding"
      [] new_status = "Missing" -> TRUE

\* ------------------------------------------------------------- variables
VARIABLES
    uploads,    \* the ledger: row id is the index, rows are never deleted
    aged,       \* ids with AGE(CURRENT_TIMESTAMP, creation_date) > max_age
    priv,       \* private directory: id -> bytes of the file, or Absent
    pub,        \* public directory: id -> bytes of the file, or Absent
    req,        \* one record per request worker: position and locals
    sw,         \* one record per sweep pass in progress: position and locals
    nreq,       \* requests started
    nsweep      \* sweep passes started

vars == <<uploads, aged, priv, pub, req, sw, nreq, nsweep>>

\* -------------------------------------------------------------- requests
IdleReq ==
    [pc |-> "idle", op |-> "none", user |-> "none", post_id |-> 0,
     id |-> 0, seen |-> "None",
     range |-> [first |-> 0, last |-> 0, total |-> Star],
     tx |-> "none", obs |-> "None", rival |-> "None",
     t1 |-> "NA", t2 |-> "NA", sto |-> "NA",
     err |-> "none", interf |-> FALSE]

IdleSweep ==
    [pc |-> "idle", page_size |-> 0, page_id |-> 0, page_count |-> 0,
     items |-> {}, todo |-> {}, unp |-> {}, err |-> "none"]

Init ==
    /\ uploads = <<>>
    /\ aged = {}
    /\ priv = [i \in Ids |-> Absent]
    /\ pub = [i \in Ids |-> Absent]
    /\ req = [p \in Procs |-> IdleReq]
    /\ sw = [s \in Sweepers |-> IdleSweep]
    /\ nreq = 0
    /\ nsweep = 0


\* --------------------------------------------------------------- helpers
Active(r) == r.pc \notin {"idle", "done"}

WriteAtStart(f, first, last, b) ==
    [i \in 1..Max(Len(f), last + 1 - first) |->
        IF i <= last + 1 - first THEN b + first + (i - 1) ELSE f[i]]

\* the file after `data` has been copied at offset first: data is the slice
\* first..last of the client's file, whose byte at offset k is b + k; a seek
\* past the end leaves a hole of zero bytes
WriteAt(f, first, last, b) ==
    [i \in 1..Max(Len(f), last + 1) |->
        IF (i - 1) \in first..last THEN b + (i - 1)
        ELSE IF i <= Len(f) THEN f[i] ELSE 0]

SetFileStatusAndSize(u, ids, new_status) ==
    [id \in 1..Len(u) |->
        IF id \in ids THEN [u[id] EXCEPT !.file_status = new_status, !.size = 0]
        ELSE u[id]]

SetFileStatusBackToInitialized(u, ids, new_status) ==
    [id \in 1..Len(u) |->
        IF id \in ids
        THEN [u[id] EXCEPT !.file_status =
                IF new_status = "Allocated" THEN "Initialized" ELSE new_status]
        ELSE u[id]]

\* UPDATE uploads SET file_status = new_status WHERE id is one of ids
SetFileStatus(u, ids, new_status) ==
    [id \in 1..Len(u) |->
        IF id \in ids THEN [u[id] EXCEPT !.file_status = new_status] ELSE u[id]]

\* the requests in flight on the uploads ids, other than worker p, learn that
\* somebody else has written the status or the files of their upload
Disturbed(r, p, ids) ==
    [q \in Procs |->
        IF q # p /\ r[q].id \in ids /\ Active(r[q])
        THEN [r[q] EXCEPT !.interf = TRUE]
        ELSE r[q]]

\* ------------------------------------------------------- request inputs
ReqSizes(max_size) == 0..max_size

Ranges(max_size) ==
    {[first |-> f, last |-> l, total |-> t] :
        f \in 0..max_size, l \in 0..max_size, t \in {Star} \cup (1..(max_size + 1))}

ValidRanges(max_size) ==
    {rg \in Ranges(max_size) : rg.first <= rg.last /\ (rg.total # Star => rg.last < rg.total)}

NoRange == [first |-> 0, last |-> 0, total |-> Star]

\* ------------------------------------------------ handler control flow
SelectPcs == {"c_set", "w_set1", "w_rev", "w_set2", "f_set1", "f_set2", "h_set1", "h_set2"}

FirstPcs == {"w_set1", "f_set1", "h_set1"}

TargetPublishingAfterWrite(c) ==
    CASE c = "c_set" -> "Allocated"
      [] c = "w_set1" -> "Writing"
      [] c = "w_rev" -> "Allocated"
      [] c = "w_set2" -> "Publishing"
      [] c = "f_set1" -> "Publishing"
      [] c = "f_set2" -> "Published"
      [] c = "h_set1" -> "Hiding"
      [] c = "h_set2" -> "Hidden"

\* the status each call site of a handler asks for
Target(c) ==
    CASE c = "c_set" -> "Allocated"
      [] c = "w_set1" -> "Writing"
      [] c = "w_rev" -> "Allocated"
      [] c = "w_set2" -> "Allocated"
      [] c = "f_set1" -> "Publishing"
      [] c = "f_set2" -> "Published"
      [] c = "h_set1" -> "Hiding"
      [] c = "h_set2" -> "Hidden"

RangeMismatchNever(rg, size) == FALSE

\* bytes.complete_length != (upload.size as u64), bounded ranges only
RangeMismatch(rg, size) == rg.total # Star /\ rg.total # size

AfterStorageIgnoreError(ok, next) == [pc |-> next, err |-> "none"]

\* `.await?` on a storage call: an io::Error ends the request
AfterStorage(ok, next) ==
    IF ok THEN [pc |-> next, err |-> "none"] ELSE [pc |-> "done", err |-> "IO"]

\* upload_add_post after try_set_upload_status(..).await?.unwrap()
UploadAddPostAfter(c, res) ==
    IF res = "Some" THEN [pc |-> "done", err |-> "Ok"]
    ELSE [pc |-> "done", err |-> "Panic"]

UploadUploadByChunkPutAfterNoRevert(c, res, rg, size) ==
    CASE c = "w_set1" ->
            IF RangeMismatch(rg, size)
            THEN [pc |-> "done", err |-> "InvalidContentRange"]
            ELSE [pc |-> "w_store", err |-> "none"]
      [] c = "w_rev" -> [pc |-> "done", err |-> "InvalidContentRange"]
      [] c = "w_set2" -> [pc |-> "done", err |-> "Ok"]

\* upload_upload_by_chunk_put after each status update; the Option that
\* tells whether the transition happened is dropped at every call
UploadUploadByChunkPutAfter(c, res, rg, size) ==
    CASE c = "w_set1" ->
            IF RangeMismatch(rg, size)
            THEN [pc |-> "w_rev", err |-> "none"]
            ELSE [pc |-> "w_store", err |-> "none"]
      [] c = "w_rev" -> [pc |-> "done", err |-> "InvalidContentRange"]
      [] c = "w_set2" -> [pc |-> "done", err |-> "Ok"]

\* upload_finalize_post after each status update (Option dropped)
UploadFinalizePostAfter(c, res) ==
    CASE c = "f_set1" -> [pc |-> "f_pub", err |-> "none"]
      [] c = "f_set2" -> [pc |-> "done", err |-> "Ok"]

UploadHidePostAfterNoUnpublish(c, res) ==
    CASE c = "h_set1" -> [pc |-> "h_set2", err |-> "none"]
      [] c = "h_set2" -> [pc |-> "done", err |-> "Ok"]

\* upload_hide_post after each status update (Option dropped)
UploadHidePostAfter(c, res) ==
    CASE c = "h_set1" -> [pc |-> "h_unpub", err |-> "none"]
      [] c = "h_set2" -> [pc |-> "done", err |-> "Ok"]

After(op, c, res, rg, size) ==
    CASE op = "create" -> UploadAddPostAfter(c, res)
      [] op = "write" -> UploadUploadByChunkPutAfter(c, res, rg, size)
      [] op = "finalize" -> UploadFinalizePostAfter(c, res)
      [] op = "hide" -> UploadHidePostAfter(c, res)

\* the request record after a status update returned res at call site r.pc;
\* u is the ledger as the statement leaves it.  After the match on
\* content_range only (start_pos, end_post) are kept
Returned(r, res, u) ==
    LET a == After(r.op, r.pc, res, r.range, u[r.id].size)
        r1 == IF r.pc \in FirstPcs THEN [r EXCEPT !.t1 = res] ELSE [r EXCEPT !.t2 = res]
    IN [r1 EXCEPT !.pc = a.pc, !.err = a.err, !.tx = "none", !.obs = "None",
                  !.range = IF a.pc = "w_store" THEN [@ EXCEPT !.total = Star] ELSE @]

Failed(r, e) == [r EXCEPT !.pc = "done", !.err = e]


\* ------------------------------------------------------ request handlers
\* a handler or a pass that has returned hands its result over before
\* anything else moves: that step touches nothing shared, so no behaviour of
\* the ledger or of the storage is lost
Quiet ==
    /\ \A q \in Procs : req[q].pc # "done"
    /\ \A s \in Sweepers : sw[s].pc # "done"

\* a request is taken by the first free worker (workers are interchangeable)
NewRequest(p, max_requests) ==
    /\ Quiet
    /\ req[p].pc = "idle"
    /\ \A q \in Procs : q < p => req[q].pc # "idle"
    /\ nreq < max_requests
    /\ nreq' = nreq + 1

AddUploadCheckPostOnly(post_id, user) ==
    IF post_id \notin Posts THEN "DoesNotExist" ELSE "Ok"

\* add_upload before its INSERT: the post is looked up, then its author is
\* compared with the requester
AddUploadCheck(post_id, user) ==
    IF post_id \notin Posts THEN "DoesNotExist"
    ELSE IF PostAuthor(post_id) # user THEN "AccessDenied"
    ELSE "Ok"

\* upload_add_post up to the return of add_upload: the validation errors are
\* collected and never looked at, so every size goes on to the insert
AddUpload(p, max_requests, max_uploads, max_size) ==
    /\ NewRequest(p, max_requests)
    /\ \E user \in Users, post_id \in PostIds, size \in ReqSizes(max_size),
          extension \in Extensions :
        LET r == [IdleReq EXCEPT !.op = "create", !.user = user, !.post_id = post_id]
            check == AddUploadCheck(post_id, user)
        IN
        IF check # "Ok"
        THEN /\ req' = [req EXCEPT ![p] = Failed(r, check)]
             /\ UNCHANGED uploads
        ELSE /\ Len(uploads) < max_uploads
             /\ uploads' = Append(uploads,
                    [file_status |-> "Initialized", size |-> size,
                     extension |-> extension, post_id |-> post_id])
             /\ req' = [req EXCEPT ![p] = [r EXCEPT !.pc = "c_alloc", !.id = Len(uploads) + 1,
                                                    !.seen = "Initialized"]]
    /\ UNCHANGED <<aged, priv, pub, sw, nsweep>>

\* allocate_private_file: File::create truncates or creates the file, the
\* seek moves the cursor and writes nothing
AllocatePrivateFile(p) ==
    /\ Quiet
    /\ req[p].pc = "c_alloc"
    /\ \E ok \in BOOLEAN :
        LET a == AfterStorage(ok, "c_set") IN
        /\ priv' = IF ok THEN [priv EXCEPT ![req[p].id] = <<>>] ELSE priv
        /\ req' = [IF ok THEN Disturbed(req, p, {req[p].id}) ELSE req EXCEPT ![p] =
                    [req[p] EXCEPT !.pc = a.pc, !.err = a.err,
                                   !.sto = IF ok THEN "ok" ELSE "fail"]]
    /\ UNCHANGED <<uploads, aged, pub, sw, nreq, nsweep>>

GetUploadCheckNoAuthor(u, id, user) ==
    IF id > Len(u) THEN "DoesNotExist" ELSE "Ok"

\* get_upload, then upload.post_author_username != user.username
GetUploadCheck(u, id, user) ==
    IF id > Len(u) THEN "DoesNotExist"
    ELSE IF PostAuthor(u[id].post_id) # user THEN "AccessDenied"
    ELSE "Ok"

\* get_upload and the author check that open write-chunk, finalize and hide
GetUpload(p, max_requests, max_uploads, max_size) ==
    /\ NewRequest(p, max_requests)
    /\ \E op \in {"write", "finalize", "hide"}, id \in 1..max_uploads, user \in Users,
          rg \in ValidRanges(max_size) :
        /\ op # "write" => rg = NoRange
        /\ LET r == [IdleReq EXCEPT !.op = op, !.user = user, !.id = id, !.range = rg]
               check == GetUploadCheck(uploads, id, user)
           IN
           req' = [req EXCEPT ![p] =
                IF check # "Ok" THEN Failed(r, check)
                ELSE [r EXCEPT !.seen = uploads[id].file_status,
                               !.pc = CASE op = "write" -> "w_set1"
                                        [] op = "finalize" -> "f_set1"
                                        [] op = "hide" -> "h_set1"]]
    /\ UNCHANGED <<uploads, aged, priv, pub, sw, nsweep>>

\* try_set_upload_status / try_set_upload_status_check_exists: BEGIN and the
\* SELECT of the current status; a rejected transition returns None here
TrySetUploadStatusSelect(p) ==
    /\ Quiet
    /\ req[p].pc \in SelectPcs
    /\ req[p].tx = "none"
    /\ LET r == req[p]
           cur == uploads[r.id].file_status
           new_status == Target(r.pc)
       IN req' = [req EXCEPT ![p] =
            IF ~CanTransitionTo(cur, new_status)
            THEN Returned([r EXCEPT !.rival = "None"], "None", uploads)
            ELSE [r EXCEPT !.tx = "selected", !.obs = cur, !.rival = "None"]]
    /\ UNCHANGED <<uploads, aged, priv, pub, sw, nreq, nsweep>>

\* the UPDATE ... WHERE id = $1 and the COMMIT of the same transaction
TrySetUploadStatusUpdate(p) ==
    /\ Quiet
    /\ req[p].pc \in SelectPcs
    /\ req[p].tx = "selected"
    /\ LET r == req[p]
           new_status == Target(r.pc)
           u == SetFileStatus(uploads, {r.id}, new_status)
           others == [q \in Procs |->
                        IF q # p /\ req[q].id = r.id /\ req[q].tx = "selected"
                           /\ req[q].obs = r.obs
                        THEN [req[q] EXCEPT !.rival = new_status]
                        ELSE req[q]]
       IN /\ uploads' = u
          /\ req' = [Disturbed(others, p, {r.id}) EXCEPT ![p] =
                        Returned([r EXCEPT !.rival = IF @ = new_status THEN "None" ELSE @],
                                 "Some", u)]
    /\ UNCHANGED <<aged, priv, pub, sw, nreq, nsweep>>

\* write_private_file: open without create, seek to start_pos, copy the body
WritePrivateFile(p) ==
    /\ Quiet
    /\ req[p].pc = "w_store"
    /\ \E ok \in BOOLEAN, b \in ByteVals :
        LET r == req[p]
            a == AfterStorage(ok, "w_set2")
        IN /\ ok => priv[r.id] # Absent
           /\ priv' = IF ok
                      THEN [priv EXCEPT ![r.id] = WriteAt(@, r.range.first, r.range.last, b)]
                      ELSE priv
           /\ req' = [IF ok THEN Disturbed(req, p, {r.id}) ELSE req EXCEPT ![p] =
                        [r EXCEPT !.pc = a.pc, !.err = a.err,
                                  !.sto = IF ok THEN "ok" ELSE "fail"]]
    /\ UNCHANGED <<uploads, aged, pub, sw, nreq, nsweep>>

\* publish_file: tokio::fs::copy of the private file to the public directory
PublishFile(p) ==
    /\ Quiet
    /\ req[p].pc = "f_pub"
    /\ \E ok \in BOOLEAN :
        LET r == req[p]
            a == AfterStorage(ok, "f_set2")
        IN /\ ok => priv[r.id] # Absent
           /\ pub' = IF ok THEN [pub EXCEPT ![r.id] = priv[r.id]] ELSE pub
           /\ req' = [IF ok THEN Disturbed(req, p, {r.id}) ELSE req EXCEPT ![p] =
                        [r EXCEPT !.pc = a.pc, !.err = a.err,
                                  !.sto = IF ok THEN "ok" ELSE "fail"]]
    /\ UNCHANGED <<uploads, aged, priv, sw, nreq, nsweep>>

\* unpublish_file: try_remove_file on the public, then on the private file;
\* NotFound counts as success, any other error stops at that file
UnpublishOutcomes == {"ok", "fail_public", "fail_private"}

\* tokio::fs::remove_file on the file f: NotFound when there is no such file,
\* another io::Error when the file system fails (fault), else the file is gone
RemoveFile(f, fault) ==
    IF fault THEN [res |-> "Other", file |-> f]
    ELSE IF f = Absent THEN [res |-> "NotFound", file |-> f]
    ELSE [res |-> "Ok", file |-> Absent]

TryRemoveFileStrict(f, fault) == RemoveFile(f, fault)

\* try_remove_file: NotFound is turned into Ok(()), the rest is passed on
TryRemoveFile(f, fault) ==
    LET r == RemoveFile(f, fault)
    IN IF r.res = "NotFound" THEN [res |-> "Ok", file |-> r.file] ELSE r

\* unpublish_file on the two files of one upload: `?` after the public file
UnpublishFileResult(pubf, privf, out) ==
    LET a == TryRemoveFile(pubf, out = "fail_public")
        b == TryRemoveFile(privf, out = "fail_private")
    IN IF a.res # "Ok" THEN [ok |-> FALSE, pub |-> a.file, priv |-> privf]
       ELSE [ok |-> b.res = "Ok", pub |-> a.file, priv |-> b.file]

UnpublishFile(p) ==
    /\ Quiet
    /\ req[p].pc = "h_unpub"
    /\ \E out \in UnpublishOutcomes :
        LET r == req[p]
            res == UnpublishFileResult(pub[r.id], priv[r.id], out)
            a == AfterStorage(res.ok, "h_set2")
        IN /\ pub' = [pub EXCEPT ![r.id] = res.pub]
           /\ priv' = [priv EXCEPT ![r.id] = res.priv]
           /\ req' = [IF out # "fail_public" THEN Disturbed(req, p, {r.id}) ELSE req
                        EXCEPT ![p] =
                        [r EXCEPT !.pc = a.pc, !.err = a.err,
                                  !.sto = IF res.ok THEN "ok" ELSE "fail"]]
    /\ UNCHANGED <<uploads, aged, sw, nreq, nsweep>>

\* the handler's Result goes back to Rocket (Error::respond_to on Err) and
\* the worker is free for the next request
Respond(p) ==
    /\ req[p].pc = "done"
    /\ req' = [req EXCEPT ![p] = IdleReq]
    /\ UNCHANGED <<uploads, aged, priv, pub, sw, nreq, nsweep>>

\* time passes: an upload becomes older than max_age
Age(id) ==
    /\ Quiet
    /\ id \in 1..Len(uploads)
    /\ id \notin aged
    /\ aged' = aged \cup {id}
    /\ UNCHANGED <<uploads, priv, pub, req, sw, nreq, nsweep>>


\* --------------------------------------------------------------- sweeper
\* the WHERE clause of both statements of
\* list_old_in_progress_uploads_and_set_hiding
Candidate(u, ag, id) ==
    /\ u[id].file_status \notin {"Published", "Hidden", "Missing"}
    /\ (id \in ag \/ u[id].file_status = "Hiding")

Candidates(u, ag) == {id \in 1..Len(u) : Candidate(u, ag, id)}

\* u64::div_ceil
DivCeil(a, b) == (a + b - 1) \div b

LimitOffsetSkipFirst(c, limit, offset) ==
    {id \in c : Cardinality({j \in c : j < id}) \in (offset + 1)..(offset + limit)}

\* ORDER BY id LIMIT limit OFFSET offset over the set c
LimitOffset(c, limit, offset) ==
    {id \in c : Cardinality({j \in c : j < id}) \in offset..(offset + limit - 1)}

\* PageParams::get_limit_offset_and_page_id with page_id = Some(page_id)
GetLimitOffsetAndPageId(page_id, page_size, total_page_count) ==
    IF page_size = 0 THEN [err |-> "InvalidPagination", limit |-> 0, offset |-> 0]
    ELSE IF ~(page_id < total_page_count)
    THEN [err |-> "PageDoesNotExist", limit |-> 0, offset |-> 0]
    ELSE [err |-> "none", limit |-> page_size, offset |-> page_id * page_size]

\* run_cleanup_storage_with_pool is called: iterate_pages starts at page 0
StartSweep(s, max_sweeps, max_page_size) ==
    /\ Quiet
    /\ sw[s].pc = "idle"
    /\ nsweep < max_sweeps
    /\ nsweep' = nsweep + 1
    /\ \E page_size \in 0..max_page_size :
        sw' = [sw EXCEPT ![s] = [IdleSweep EXCEPT !.pc = "count", !.page_size = page_size]]
    /\ UNCHANGED <<uploads, aged, priv, pub, req, nreq>>

IteratePagesAfterErrorStrict(w, err) == [w EXCEPT !.pc = "done", !.err = err]

IteratePagesAfterErrorSwallowed(w, err) == [w EXCEPT !.pc = "done", !.err = "Ok"]

\* iterate_pages when page_func returns Err: PageDoesNotExist breaks out of
\* the loop and the stream ends; any other error is yielded by `other?`, and
\* `page?` in run_cleanup_storage_with_pool returns it from the pass
IteratePagesAfterError(w, err) ==
    IF err = "PageDoesNotExist" THEN [w EXCEPT !.pc = "done", !.err = "Ok"]
    ELSE [w EXCEPT !.pc = "done", !.err = err]

\* the SELECT COUNT(id) statement, div_ceil and get_limit_offset_and_page_id;
\* iterate_pages ends the stream on PageDoesNotExist and yields other errors
SweepCount(s) ==
    /\ Quiet
    /\ sw[s].pc = "count"
    /\ LET w == sw[s]
           total_item_count == Cardinality(Candidates(uploads, aged))
       IN sw' = [sw EXCEPT ![s] =
            IF w.page_size = 0 THEN [w EXCEPT !.pc = "done", !.err = "Panic"]
            ELSE LET page_count == DivCeil(total_item_count, w.page_size)
                     lo == GetLimitOffsetAndPageId(w.page_id, w.page_size, page_count)
                 IN IF lo.err # "none" THEN IteratePagesAfterError(w, lo.err)
                    ELSE [w EXCEPT !.pc = "claim", !.page_count = page_count]]
    /\ UNCHANGED <<uploads, aged, priv, pub, req, nreq, nsweep>>

\* the SELECT COUNT(id) statement fails: `.fetch_one(pool).await?` returns the
\* sqlx error from the page function
SweepCountFails(s) ==
    /\ Quiet
    /\ sw[s].pc = "count"
    /\ sw' = [sw EXCEPT ![s] = IteratePagesAfterError(sw[s], "Sqlx")]
    /\ UNCHANGED <<uploads, aged, priv, pub, req, nreq, nsweep>>

\* the UPDATE ... SET file_status = 'HIDING' WHERE id IN (SELECT ... LIMIT
\* OFFSET) RETURNING statement: the page of the stream
SweepClaim(s) ==
    /\ Quiet
    /\ sw[s].pc = "claim"
    /\ LET w == sw[s]
           ids == LimitOffset(Candidates(uploads, aged), w.page_size, w.page_id * w.page_size)
       IN /\ uploads' = SetFileStatus(uploads, ids, "Hiding")
          /\ sw' = [sw EXCEPT ![s] = [w EXCEPT !.pc = "unpub", !.items = ids, !.todo = ids, !.unp = {}]]
          /\ req' = Disturbed(req, 0, ids)
    /\ UNCHANGED <<aged, priv, pub, nreq, nsweep>>

SweepAfterUnpublishContinue(w, id, ok) == [w EXCEPT !.todo = @ \ {id}]

\* the body of the for loop: unpublish_file(..).await? ends the pass on error
SweepAfterUnpublish(w, id, ok) ==
    IF ok THEN [w EXCEPT !.todo = @ \ {id}, !.unp = @ \cup {id}]
    ELSE [w EXCEPT !.pc = "done", !.err = "IO"]

SweepUnpublish(s) ==
    /\ Quiet
    /\ sw[s].pc = "unpub"
    /\ \E id \in sw[s].todo, out \in UnpublishOutcomes :
        LET res == UnpublishFileResult(pub[id], priv[id], out) IN
        /\ pub' = [pub EXCEPT ![id] = res.pub]
        /\ priv' = [priv EXCEPT ![id] = res.priv]
        /\ sw' = [sw EXCEPT ![s] = SweepAfterUnpublish(sw[s], id, res.ok)]
        /\ req' = IF out # "fail_public" THEN Disturbed(req, 0, {id}) ELSE req
    /\ UNCHANGED <<uploads, aged, nreq, nsweep>>

IteratePagesAfterYieldSamePage(w) ==
    IF (w.page_id + 1) >= w.page_count
    THEN [w EXCEPT !.pc = "done", !.err = "Ok"]
    ELSE [w EXCEPT !.pc = "count"]

IteratePagesAfterYieldNoBreak(w) == [w EXCEPT !.pc = "count", !.page_id = @ + 1]

\* iterate_pages after the consumer is done with the page it was yielded
IteratePagesAfterYield(w) ==
    IF (w.page_id + 1) >= w.page_count
    THEN [w EXCEPT !.pc = "done", !.err = "Ok"]
    ELSE [w EXCEPT !.pc = "count", !.page_id = @ + 1]

\* set_uploads_hidden on the ids of the page, then the end test of
\* iterate_pages: (page_id + 1) >= page_count
SweepSetHidden(s) ==
    /\ Quiet
    /\ sw[s].pc = "unpub"
    /\ sw[s].todo = {}
    /\ LET w == sw[s] IN
        /\ uploads' = SetFileStatus(uploads, w.items, "Hidden")
        /\ sw' = [sw EXCEPT ![s] = IteratePagesAfterYield(w)]
        /\ req' = Disturbed(req, 0, w.items)
    /\ UNCHANGED <<aged, priv, pub, nreq, nsweep>>

\* the rows that one pass of page size page_size >= 1, run alone from page
\* page_id on over the ledger u without storage failure, claims: the loop of
\* iterate_pages around the count, the claim statement and set_uploads_hidden
RECURSIVE ClaimedByPass(_, _, _, _)
ClaimedByPass(u, ag, page_size, page_id) ==
    LET page_count == DivCeil(Cardinality(Candidates(u, ag)), page_size)
        lo == GetLimitOffsetAndPageId(page_id, page_size, page_count)
        items == LimitOffset(Candidates(u, ag), lo.limit, lo.offset)
        hidden == [id \in 1..Len(u) |->
                     IF id \in items THEN [u[id] EXCEPT !.file_status = "Hidden"] ELSE u[id]]
    IN IF lo.err # "none" THEN {}
       ELSE IF (page_id + 1) >= page_count THEN items
       ELSE items \cup ClaimedByPass(hidden, ag, page_size, page_id + 1)

\* run_cleanup_storage_with_pool returns and the process exits
SweepReturn(s) ==
    /\ sw[s].pc = "done"
    /\ sw' = [sw EXCEPT ![s] = IdleSweep]
    /\ UNCHANGED <<uploads, aged, priv, pub, req, nreq, nsweep>>

\* ---------------------------------------------------------- specification
Next ==
    \/ \E p \in Procs : AddUpload(p, MaxRequests, MaxUploads, MaxSize)
    \/ \E p \in Procs : AllocatePrivateFile(p)
    \/ \E p \in Procs : GetUpload(p, MaxRequests, MaxUploads, MaxSize)
    \/ \E p \in Procs : TrySetUploadStatusSelect(p)
    \/ \E p \in Procs : TrySetUploadStatusUpdate(p)
    \/ \E p \in Procs : WritePrivateFile(p)
    \/ \E p \in Procs : PublishFile(p)
    \/ \E p \in Procs : UnpublishFile(p)
    \/ \E p \in Procs : Respond(p)
    \/ \E id \in Ids : Age(id)
    \/ \E s \in 1..NumSweepers : StartSweep(s, MaxSweeps, MaxPageSize)
    \/ \E s \in Sweepers : SweepCount(s)
    \/ \E s \in Sweepers : SweepClaim(s)
    \/ \E s \in Sweepers : SweepUnpublish(s)
    \/ \E s \in Sweepers : SweepSetHidden(s)
    \/ \E s \in Sweepers : SweepReturn(s)

Spec == Init /\ [][Next]_vars

\* ------------------------------------------------- the sweeper on its own
\* Sequential requests of one worker build the ledger and the directories;
\* once the first pass has started no request arrives and no further upload
\* grows older than max_age, and a pass starts only when no request is in
\* flight.  Up to SweepNumSweepers passes run at once.
SweepProcs == {1}

LedgerAddUpload(p) ==
    /\ nsweep = 0
    /\ AddUpload(p, SweepMaxRequests, SweepMaxUploads, MaxSize)

LedgerGetUpload(p) ==
    /\ nsweep = 0
    /\ GetUpload(p, SweepMaxRequests, SweepMaxUploads, MaxSize)

LedgerAge(id) ==
    /\ nsweep = 0
    /\ Age(id)

LedgerStartSweep(s) ==
    /\ \A p \in Procs : req[p].pc = "idle"
    /\ StartSweep(s, SweepMaxSweeps, SweepMaxPageSize)

\* the sweeper process is killed between two of its statements
SweepCrash(s) ==
    /\ Quiet
    /\ sw[s].pc \notin {"idle", "done"}
    /\ sw' = [sw EXCEPT ![s] = [@ EXCEPT !.pc = "done", !.err = "Killed"]]
    /\ UNCHANGED <<uploads, aged, priv, pub, req, nreq, nsweep>>

SweepNext ==
    \/ \E p \in SweepProcs : LedgerAddUpload(p)
    \/ \E p \in SweepProcs : AllocatePrivateFile(p)
    \/ \E p \in SweepProcs : LedgerGetUpload(p)
    \/ \E p \in SweepProcs : TrySetUploadStatusSelect(p)
    \/ \E p \in SweepProcs : TrySetUploadStatusUpdate(p)
    \/ \E p \in SweepProcs : WritePrivateFile(p)
    \/ \E p \in SweepProcs : PublishFile(p)
    \/ \E p \in SweepProcs : UnpublishFile(p)
    \/ \E p \in SweepProcs : Respond(p)
    \/ \E id \in Ids : LedgerAge(id)
    \/ \E s \in 1..SweepNumSweepers : LedgerStartSweep(s)
    \/ \E s \in Sweepers : SweepCount(s)
    \/ \E s \in Sweepers : SweepClaim(s)
    \/ \E s \in Sweepers : SweepUnpublish(s)
    \/ \E s \in Sweepers : SweepSetHidden(s)
    \/ \E s \in Sweepers : SweepCrash(s)
    \/ \E s \in Sweepers : SweepReturn(s)

SweepSpec == Init /\ [][SweepNext]_vars

\* -------------------------------------------------------- one client alone
SoloNext ==
    \/ \E p \in SweepProcs : AddUpload(p, SoloMaxRequests, MaxUploads, SoloMaxSize)
    \/ \E p \in SweepProcs : AllocatePrivateFile(p)
    \/ \E p \in SweepProcs : GetUpload(p, SoloMaxRequests, MaxUploads, SoloMaxSize)
    \/ \E p \in SweepProcs : TrySetUploadStatusSelect(p)
    \/ \E p \in SweepProcs : TrySetUploadStatusUpdate(p)
    \/ \E p \in SweepProcs : WritePrivateFile(p)
    \/ \E p \in SweepProcs : PublishFile(p)
    \/ \E p \in SweepProcs : UnpublishFile(p)
    \/ \E p \in SweepProcs : Respond(p)

SoloSpec == Init /\ [][SoloNext]_vars

\* ---------------------------------------------------------- the page stream
\* Creations of one worker build a ledger of up to PageMaxUploads rows, which
\* grow older than max_age at any time; one sweeper goes through its pages,
\* and the COUNT statement of its page function may fail.
PageAddUpload(p) ==
    /\ nsweep = 0
    /\ AddUpload(p, PageMaxRequests, PageMaxUploads, MaxSize)

PageStartSweep(s) ==
    /\ \A p \in Procs : req[p].pc = "idle"
    /\ StartSweep(s, PageMaxSweeps, PageMaxPageSize)

PageNext ==
    \/ \E p \in SweepProcs : PageAddUpload(p)
    \/ \E p \in SweepProcs : AllocatePrivateFile(p)
    \/ \E p \in SweepProcs : TrySetUploadStatusSelect(p)
    \/ \E p \in SweepProcs : TrySetUploadStatusUpdate(p)
    \/ \E p \in SweepProcs : Respond(p)
    \/ \E id \in Ids : Age(id)
    \/ \E s \in 1..NumSweepers : PageStartSweep(s)
    \/ \E s \in Sweepers : SweepCount(s)
    \/ \E s \in Sweepers : SweepCountFails(s)
    \/ \E s \in Sweepers : SweepClaim(s)
    \/ \E s \in Sweepers : SweepUnpublish(s)
    \/ \E s \in Sweepers : SweepSetHidden(s)
    \/ \E s \in Sweepers : SweepReturn(s)

PageSpec == Init /\ [][PageNext]_vars

\* --------------------------------------------------------- repeated passes
\* Sequential requests of one worker build the ledger as in SweepSpec; then
\* the cleanup command is run again and again, one pass at a time, with a
\* page size >= 1 and a storage that does not fail.  A pass that runs goes on
\* (the process is scheduled) and the command is run again as long as the
\* bound on the passes allows.
LiveStartSweep(s) ==
    /\ \A p \in Procs : req[p].pc = "idle"
    /\ StartSweep(s, LiveMaxSweeps, SweepMaxPageSize)
    /\ sw'[s].page_size >= 1

LiveSweepUnpublish(s) ==
    /\ SweepUnpublish(s)
    /\ sw'[s].err = "none"

LiveNext ==
    \/ \E p \in SweepProcs : LedgerAddUpload(p)
    \/ \E p \in SweepProcs : AllocatePrivateFile(p)
    \/ \E p \in SweepProcs : LedgerGetUpload(p)
    \/ \E p \in SweepProcs : TrySetUploadStatusSelect(p)
    \/ \E p \in SweepProcs : TrySetUploadStatusUpdate(p)
    \/ \E p \in SweepProcs : WritePrivateFile(p)
    \/ \E p \in SweepProcs : PublishFile(p)
    \/ \E p \in SweepProcs : UnpublishFile(p)
    \/ \E p \in SweepProcs : Respond(p)
    \/ \E id \in Ids : LedgerAge(id)
    \/ \E s \in 1..NumSweepers : LiveStartSweep(s)
    \/ \E s \in 1..NumSweepers : SweepCount(s)
    \/ \E s \in 1..NumSweepers : SweepClaim(s)
    \/ \E s \in 1..NumSweepers : LiveSweepUnpublish(s)
    \/ \E s \in 1..NumSweepers : SweepSetHidden(s)
    \/ \E s \in 1..NumSweepers : SweepReturn(s)

LiveSpec ==
    /\ Init /\ [][LiveNext]_vars
    /\ \A p \in SweepProcs :
          /\ WF_vars(AllocatePrivateFile(p))
          /\ WF_vars(TrySetUploadStatusSelect(p))
          /\ WF_vars(TrySetUploadStatusUpdate(p))
          /\ WF_vars(WritePrivateFile(p))
          /\ WF_vars(PublishFile(p))
          /\ WF_vars(UnpublishFile(p))
          /\ WF_vars(Respond(p))
    /\ \A s \in 1..NumSweepers :
          /\ WF_vars(LiveStartSweep(s))
          /\ WF_vars(SweepCount(s))
          /\ WF_vars(SweepClaim(s))
          /\ WF_vars(LiveSweepUnpublish(s))
          /\ WF_vars(SweepSetHidden(s))
          /\ WF_vars(SweepReturn(s))


\* ---------------------------------------------------------------- claims
Status(id) == uploads[id].file_status

Done(p) == req[p].pc = "done"

\* C1: whenever the stored status of an upload record changes from A to B,
\* can_transition_to(A, B) is true, whichever component wrote it (request
\* handlers, the sweeper's claim statement, its batch update to Hidden).
C1_StatusChangesAreValidated ==
    [][\A id \in 1..Len(uploads) :
          uploads'[id].file_status # uploads[id].file_status
          => CanTransitionTo(uploads[id].file_status, uploads'[id].file_status)]_vars

AllowedEdges ==
    {<<"Initialized", "Allocated">>, <<"Writing", "Allocated">>,
     <<"Allocated", "Writing">>, <<"Allocated", "Publishing">>,
     <<"Hidden", "Publishing">>, <<"Publishing", "Published">>,
     <<"Published", "Hiding">>, <<"Hiding", "Hidden">>}

\* C2: can_transition_to(current, target) is true exactly for the eight listed
\* edges and for target = Missing; it is false for target = Initialized and
\* true for target = Missing from every status; a status update goes on to
\* its UPDATE only for a pair of the table.
C2_CanTransitionToTable ==
    /\ \A cur \in UploadStatus, target \in UploadStatus :
          CanTransitionTo(cur, target) <=> (<<cur, target>> \in AllowedEdges \/ target = "Missing")
    /\ \A cur \in UploadStatus :
          ~CanTransitionTo(cur, "Initialized") /\ CanTransitionTo(cur, "Missing")
    /\ \A p \in Procs :
          req[p].tx = "selected" => <<req[p].obs, Target(req[p].pc)>> \in AllowedEdges

\* a finalize has read Hidden and is about to write Publishing
C2_Witness ==
    \E p \in Procs :
        /\ req[p].pc = "f_set1" /\ req[p].tx = "selected"
        /\ req[p].obs = "Hidden" /\ Status(req[p].id) = "Hidden"

\* C3: of two finalize requests in flight on one upload that both found it
\* Allocated, when one has performed the transition to Publishing the other
\* one is rejected, returns the state-conflict error and does not go on to
\* publish the file.
C3_ConcurrentFinalizeOneWins ==
    \A p \in Procs, q \in Procs :
        (/\ p # q
         /\ req[p].op = "finalize" /\ req[q].op = "finalize"
         /\ req[p].id = req[q].id
         /\ req[p].seen = "Allocated" /\ req[q].seen = "Allocated"
         /\ req[p].t1 = "Some" /\ req[q].t1 # "NA")
        => (/\ req[q].t1 = "None"
            /\ Done(q)
            /\ req[q].err = "InvalidUploadState"
            /\ req[q].sto = "NA")

\* C4: no status update commits a transition from a status that a concurrent
\* status update on the same record, which reported success for a different
\* transition, had observed too.
C4_NoTwoWinnersFromOneStatus ==
    \A p \in Procs : ~(req[p].tx = "none" /\ req[p].rival # "None")

\* C5: a write-chunk request whose transition to Writing is rejected ends with
\* the state-conflict error, writes no bytes, makes no later status update and
\* leaves the status as it found it.
C5_WriteRejectedIsConflict ==
    \A p \in Procs :
        (req[p].op = "write" /\ req[p].t1 = "None")
        => (/\ Done(p)
            /\ req[p].err = "InvalidUploadState"
            /\ req[p].sto = "NA"
            /\ req[p].t2 = "NA"
            /\ (~req[p].interf => Status(req[p].id) = req[p].seen))

\* C6: a finalize request whose transition to Publishing is rejected ends with
\* the state-conflict error (not DoesNotExist, not AccessDenied), copies
\* nothing to the public directory, makes no later status update and leaves
\* the status as it found it.
C6_FinalizeRejectedIsConflict ==
    \A p \in Procs :
        (req[p].op = "finalize" /\ req[p].t1 = "None")
        => (/\ Done(p)
            /\ req[p].err = "InvalidUploadState"
            /\ req[p].err \notin {"DoesNotExist", "AccessDenied"}
            /\ req[p].sto = "NA"
            /\ req[p].t2 = "NA"
            /\ (~req[p].interf => Status(req[p].id) = req[p].seen))

\* C7: a hide request whose transition to Hiding is rejected (status not
\* Published) ends with the state-conflict error, removes no file, makes no
\* later status update and leaves the status as it found it.
C7_HideRejectedIsConflict ==
    \A p \in Procs :
        (req[p].op = "hide" /\ req[p].t1 = "None")
        => (/\ Done(p)
            /\ req[p].err = "InvalidUploadState"
            /\ req[p].sto = "NA"
            /\ req[p].t2 = "NA"
            /\ (~req[p].interf => Status(req[p].id) = req[p].seen))

\* a write-chunk request that took the upload from Allocated to Writing and
\* carried a bounded range whose total is not the record's size
MismatchedWrite(p) ==
    /\ req[p].op = "write"
    /\ req[p].t1 = "Some"
    /\ req[p].range.total # Star
    /\ req[p].range.total # uploads[req[p].id].size

\* C8: a write-chunk request on an Allocated upload with a bounded range whose
\* total differs from the record's size returns InvalidContentRange, has
\* written no bytes, has attempted the revert, and leaves the record not in
\* Writing: in Allocated when its revert was applied, which it is whenever
\* nobody else wrote the record or its files during the request.
C8_MismatchLeavesAllocated ==
    \A p \in Procs :
        (Done(p) /\ MismatchedWrite(p))
        => (/\ req[p].err = "InvalidContentRange"
            /\ req[p].sto = "NA"
            /\ req[p].t2 # "NA"
            /\ Status(req[p].id) # "Writing"
            /\ (req[p].t2 = "Some" => Status(req[p].id) = "Allocated")
            /\ (~req[p].interf => Status(req[p].id) = "Allocated"))

\* an undisturbed mismatched write has just returned
C8_Witness ==
    \E p \in Procs :
        /\ Done(p) /\ MismatchedWrite(p) /\ ~req[p].interf
        /\ req[p].err = "InvalidContentRange"
        /\ Status(req[p].id) = "Allocated"
        /\ uploads[req[p].id].size > 0

\* C9: a write-chunk request that moved the record to Writing and whose storage
\* write failed has attempted the transition back to Allocated before it
\* returns, and with no other activity the record is then Allocated.
C9_RevertAfterFailedWrite ==
    \A p \in Procs :
        (Done(p) /\ req[p].op = "write" /\ req[p].t1 = "Some" /\ req[p].sto = "fail")
        => (/\ req[p].t2 # "NA"
            /\ (~req[p].interf => Status(req[p].id) = "Allocated"))

\* C10: the status update that records a storage operation as done (to
\* Allocated in create, to Published in finalize, to Hidden in hide and in the
\* sweeper) is reached only after that storage operation succeeded for the
\* upload; after a failed storage operation the request or the pass ends
\* without that update.
C10_UpdateOnlyAfterStorageSuccess ==
    /\ \A p \in Procs :
        req[p].op \in {"create", "finalize", "hide"} =>
            /\ req[p].pc \in {"c_set", "f_set2", "h_set2"} => req[p].sto = "ok"
            /\ req[p].t2 # "NA" => req[p].sto = "ok"
            /\ req[p].sto = "fail" => (Done(p) /\ req[p].err = "IO")
    /\ \A s \in Sweepers :
        /\ (sw[s].pc = "unpub" /\ sw[s].todo = {}) => sw[s].items \subseteq sw[s].unp
        /\ sw[s].pc = "unpub" => sw[s].items \ sw[s].todo \subseteq sw[s].unp
        /\ sw[s].err = "IO" => sw[s].pc = "done"

\* a finalize has published the file and then recorded Published
C10_Witness ==
    \E p \in Procs :
        /\ Done(p) /\ req[p].op = "finalize"
        /\ req[p].sto = "ok" /\ req[p].t2 = "Some"
        /\ Status(req[p].id) = "Published"
        /\ pub[req[p].id] # Absent

\* the first n bytes of the client's file of seed b
ClientFile(n, b) == [i \in 1..n |-> b + (i - 1)]

\* a finalize by the author, alone, found the upload Allocated and returned Ok
FinalizedAlone(p) ==
    /\ Done(p) /\ req[p].op = "finalize"
    /\ req[p].seen = "Allocated" /\ req[p].err = "Ok"

\* C11: one client alone creates an upload of size N, writes chunks of its
\* file and finalizes: the status is Published, the public file is the private
\* file, every byte of it that was written is the byte of the client's file at
\* that offset, and when the whole range [0, N) was written the public file is
\* exactly the N bytes of the client's file.
C11_RoundTrip ==
    \A p \in Procs :
        FinalizedAlone(p) =>
            LET id == req[p].id
                n == uploads[id].size
            IN /\ Status(id) = "Published"
               /\ pub[id] # Absent
               /\ pub[id] = priv[id]
               /\ \A i \in 1..Len(pub[id]) :
                     pub[id][i] = 0 \/ \E b \in ByteVals : pub[id][i] = b + (i - 1)
               /\ (Len(pub[id]) = n /\ \A i \in 1..n : pub[id][i] # 0)
                     => \E b \in ByteVals : pub[id] = ClientFile(n, b)

\* an upload of two bytes was written and finalized
C11_Witness ==
    \E p \in Procs :
        /\ FinalizedAlone(p)
        /\ uploads[req[p].id].size = 2
        /\ pub[req[p].id] = ClientFile(2, 1)

\* a pass with page size >= 1 has returned Ok and no other pass was ever
\* started: it ran alone and met no storage failure
PassAlone(s) ==
    /\ sw[s].pc = "done" /\ sw[s].err = "Ok"
    /\ sw[s].page_size >= 1
    /\ nsweep = 1

\* C12: after one complete sweep pass that ran alone, with a page size >= 1
\* and without storage failure, no upload satisfies the candidate predicate
\* any more (every candidate of the start of the pass is Hidden), so that a
\* second pass finds nothing to do.
C12_OnePassSweepsAll ==
    \A s \in Sweepers : PassAlone(s) => Candidates(uploads, aged) = {}

FilesAbsent(id) == pub[id] = Absent /\ priv[id] = Absent

\* C13: a row turns Hidden during the passes only in the batch update of a
\* pass that has unpublished it with success, both files of the row are absent
\* at that update, and with no request running they are absent for every
\* Hidden row from then on, so also once the pass has finished.
C13_HiddenAfterUnpublish ==
    /\ [](nsweep >= 1 =>
            \A id \in 1..Len(uploads) : Status(id) = "Hidden" => FilesAbsent(id))
    /\ [][\A id \in 1..Len(uploads) :
            (nsweep >= 1 /\ Status(id) # "Hidden" /\ uploads'[id].file_status = "Hidden")
            => \E s \in Sweepers :
                    /\ sw[s].pc = "unpub" /\ sw'[s].pc # "unpub"
                    /\ id \in sw[s].items /\ id \in sw[s].unp
                    /\ FilesAbsent(id)]_vars

\* a pass has returned Ok after it unpublished an upload that had been
\* written to, and set it Hidden
C13_Witness ==
    \E s \in Sweepers, id \in 1..Len(uploads) :
        /\ sw[s].pc = "done" /\ sw[s].err = "Ok"
        /\ id \in sw[s].items /\ id \in sw[s].unp
        /\ Status(id) = "Hidden" /\ FilesAbsent(id)
        /\ uploads[id].size > 0

\* C14: two passes that run at once never hold the same row as claimed: the
\* claim statement of one pass does not return a row that the other pass has
\* marked Hiding and is still processing.
C14_NoDoubleClaim ==
    \A s \in Sweepers, t \in Sweepers :
        (s # t /\ sw[s].pc = "unpub" /\ sw[t].pc = "unpub")
        => sw[s].items \cap sw[t].items = {}

\* C15: a failure of unpublish for one upload does not end the pass: a pass
\* that was not killed never returns the storage error, and every upload it
\* has unpublished is Hidden when it returns.
C15_UnpublishFailureDoesNotAbort ==
    \A s \in Sweepers :
        (sw[s].pc = "done" /\ sw[s].err # "Killed")
        => (/\ sw[s].err # "IO"
            /\ \A id \in sw[s].unp : Status(id) = "Hidden")

\* a pass has ended on a storage error or was killed, no other pass runs
Interrupted(s) ==
    /\ sw[s].pc = "done" /\ sw[s].err \in {"IO", "Killed"}
    /\ \A t \in Sweepers : t # s => sw[t].pc = "idle"

\* C16: when a pass is interrupted, every row of the page it had claimed is
\* Hiding or Hidden, every such row left in Hiding satisfies the candidate
\* predicate whatever its age, and the next pass, run alone with any page size
\* >= 1, claims it again.
C16_InterruptedPassIsResumed ==
    \A s \in Sweepers :
        Interrupted(s) =>
            \A id \in sw[s].items :
                /\ Status(id) \in {"Hiding", "Hidden"}
                /\ Status(id) = "Hiding" =>
                      /\ Candidate(uploads, {}, id)
                      /\ \A page_size \in 1..SweepMaxPageSize :
                            id \in ClaimedByPass(uploads, aged, page_size, 0)

\* the status or a file of upload id changes in the step
Touched(id) ==
    \/ uploads'[id].file_status # uploads[id].file_status
    \/ pub'[id] # pub[id]
    \/ priv'[id] # priv[id]

\* C17: a step of a sweep pass (its claim statement, an unpublish, its batch
\* update to Hidden) changes the status or removes a file only of an upload
\* that satisfies the candidate predicate at that step: never of one that is
\* Published, Hidden or Missing, nor of one that is not older than max_age
\* and not Hiding.
C17_SweepTouchesCandidatesOnly ==
    [][sw' # sw =>
        \A id \in 1..Len(uploads) :
            Touched(id) =>
                /\ Candidate(uploads, aged, id)
                /\ Status(id) \notin {"Published", "Hidden", "Missing"}
                /\ (id \in aged \/ Status(id) = "Hiding")]_vars

\* what is left of a pass over a ledger of n rows: pages, then the statements
\* of the page, then the items of the page; 0 when the pass has ended
Rank(w, n) ==
    IF w.pc \in {"idle", "done"} THEN 0
    ELSE (((n + 1 - w.page_id) * 3
            + (CASE w.pc = "count" -> 2 [] w.pc = "claim" -> 1 [] w.pc = "unpub" -> 0))
          * (n + 1)) + Cardinality(w.todo) + 1

PassStep(s) == SweepCount(s) \/ SweepClaim(s) \/ SweepUnpublish(s) \/ SweepSetHidden(s)

\* C18: a pass over a finite ledger ends, for every page size: while it runs
\* it always has a next step, every step of it lowers a rank that is never
\* negative (the page index grows by one at each new page and never exceeds
\* the number of rows), and it ends only at (page_id + 1) >= page_count, at
\* PageDoesNotExist, or on the first error (for page size 0 the division by
\* zero of the page count).
C18_PassTerminates ==
    /\ [](\A s \in Sweepers :
            /\ sw[s].page_id <= Len(uploads)
            /\ (sw[s].pc \in {"count", "claim", "unpub"} /\ Quiet) => ENABLED PassStep(s)
            /\ sw[s].pc = "done" =>
                  \/ sw[s].err \in {"IO", "Killed"}
                  \/ sw[s].err = "Panic" /\ sw[s].page_size = 0
                  \/ /\ sw[s].err = "Ok" /\ sw[s].page_size >= 1
                     /\ \/ (sw[s].page_id + 1) >= sw[s].page_count
                        \/ ~(sw[s].page_id <
                               DivCeil(Cardinality(Candidates(uploads, aged)), sw[s].page_size)))
    /\ [][\A s \in Sweepers :
            (sw'[s] # sw[s] /\ sw[s].pc \notin {"idle", "done"})
            => /\ Rank(sw'[s], Len(uploads)) < Rank(sw[s], Len(uploads))
               /\ sw'[s].page_id \in {sw[s].page_id, sw[s].page_id + 1}
               /\ (sw[s].pc = "unpub" /\ sw'[s].pc = "count")
                     => sw'[s].page_id = sw[s].page_id + 1]_vars

\* a pass has gone through page 0, asked for page 1 and ended there
C18_Witness ==
    \E s \in Sweepers :
        /\ sw[s].pc = "done" /\ sw[s].err = "Ok"
        /\ sw[s].page_id = 1
        /\ sw[s].items # {}

\* C19: a create request whose allocate step failed returns the storage error
\* without attempting the transition to Allocated, and the record it inserted
\* is still Initialized (unless somebody else wrote it meanwhile).
C19_AllocateFailureKeepsInitialized ==
    \A p \in Procs :
        (req[p].op = "create" /\ req[p].sto = "fail")
        => (/\ Done(p)
            /\ req[p].err = "IO"
            /\ req[p].t2 = "NA"
            /\ req[p].tx = "none"
            /\ (~req[p].interf => Status(req[p].id) = "Initialized"))

\* a create request has returned the storage error of allocate
C19_Witness ==
    \E p \in Procs :
        /\ Done(p) /\ req[p].op = "create"
        /\ req[p].sto = "fail" /\ req[p].err = "IO"
        /\ ~req[p].interf
        /\ Status(req[p].id) = "Initialized"
        /\ priv[req[p].id] = Absent

\* C20: a create request with size 0 (or a size over the configured maximum)
\* is rejected before the insert: no record of the ledger has size 0 and no
\* create request works on such a record.
C20_InvalidSizeIsRejected ==
    /\ \A id \in 1..Len(uploads) : uploads[id].size > 0
    /\ \A p \in Procs :
          (req[p].op = "create" /\ req[p].id # 0) => uploads[req[p].id].size > 0

\* a create request arrives at worker p in the step
CreateEnters(p) == req[p].pc = "idle" /\ req'[p].op = "create"

\* C21: create fails with DoesNotExist when the post id is unknown and with
\* AccessDenied when the requester is not the post's author, and inserts no
\* record in both cases; otherwise it inserts exactly one record, with status
\* Initialized, and returns it; nothing else inserts a record.
C21_CreateContract ==
    /\ [](\A p \in Procs :
            req[p].op = "create" =>
                /\ req[p].post_id \notin Posts
                      => (Done(p) /\ req[p].err = "DoesNotExist" /\ req[p].id = 0)
                /\ (req[p].post_id \in Posts /\ PostAuthor(req[p].post_id) # req[p].user)
                      => (Done(p) /\ req[p].err = "AccessDenied" /\ req[p].id = 0)
                /\ (req[p].post_id \in Posts /\ PostAuthor(req[p].post_id) = req[p].user)
                      => /\ req[p].id \in 1..Len(uploads)
                         /\ req[p].seen = "Initialized"
                         /\ req[p].err \notin {"DoesNotExist", "AccessDenied"})
    /\ [][/\ \A p \in Procs :
                CreateEnters(p) =>
                    IF req'[p].id = 0 THEN uploads' = uploads
                    ELSE /\ Len(uploads') = Len(uploads) + 1
                         /\ SubSeq(uploads', 1, Len(uploads)) = uploads
                         /\ req'[p].id = Len(uploads')
                         /\ uploads'[req'[p].id].file_status = "Initialized"
                         /\ uploads'[req'[p].id].post_id = req'[p].post_id
          /\ Len(uploads') # Len(uploads) => \E p \in Procs : CreateEnters(p)]_vars

\* with one record in the ledger, a create request of a user who is not the
\* author has been refused and a second record was inserted for the author
C21_Witness ==
    /\ Len(uploads) = 2
    /\ \E p \in Procs :
        /\ Done(p) /\ req[p].op = "create"
        /\ req[p].user = "other" /\ req[p].post_id \in Posts
        /\ req[p].err = "AccessDenied"

\* worker p holds a write-chunk, finalize or hide request on an existing
\* upload, made by a user who is not the author of the upload's post
NonAuthorRequest(r, u) ==
    /\ r.op \in {"write", "finalize", "hide"}
    /\ r.id \in 1..Len(u)
    /\ PostAuthor(u[r.id].post_id) # r.user

\* C22: a write-chunk, finalize or hide request of a user who is not the
\* author of the upload's post fails with AccessDenied, attempts no status
\* update and no storage call, and its step changes neither the status of the
\* record nor its private or public file, whatever the status is.
C22_NonAuthorIsRefused ==
    /\ [](\A p \in Procs :
            NonAuthorRequest(req[p], uploads) =>
                /\ Done(p) /\ req[p].err = "AccessDenied"
                /\ req[p].t1 = "NA" /\ req[p].t2 = "NA" /\ req[p].sto = "NA"
                /\ req[p].tx = "none")
    /\ [][\A p \in Procs :
            (req[p].pc = "idle" /\ NonAuthorRequest(req'[p], uploads))
            => (uploads' = uploads /\ priv' = priv /\ pub' = pub)]_vars

\* a hide request of another user on a Published upload has been refused
C22_Witness ==
    \E p \in Procs :
        /\ NonAuthorRequest(req[p], uploads)
        /\ req[p].op = "hide" /\ req[p].err = "AccessDenied"
        /\ Status(req[p].id) = "Published"
        /\ pub[req[p].id] # Absent /\ priv[req[p].id] # Absent

\* C23: Hidden and Missing are terminal: a record whose status is Hidden or
\* Missing keeps that status in every step of a create, write-chunk, finalize
\* or hide request and of a sweep pass.
C23_HiddenAndMissingAreTerminal ==
    [][\A id \in 1..Len(uploads) :
          Status(id) \in {"Hidden", "Missing"}
          => uploads'[id].file_status = Status(id)]_vars

\* C24: a record, once inserted, is never deleted and keeps its id (its place
\* in the ledger), its size, its extension and its post id through every step
\* of a request and of a sweep pass; only its status changes.
C24_RecordIsImmutable ==
    [][/\ Len(uploads') >= Len(uploads)
       /\ \A id \in 1..Len(uploads) :
            /\ uploads'[id].size = uploads[id].size
            /\ uploads'[id].extension = uploads[id].extension
            /\ uploads'[id].post_id = uploads[id].post_id]_vars

\* a record of size 1 has gone all the way to Hidden next to a second record
C24_Witness ==
    /\ Len(uploads) = 2
    /\ \E id \in 1..Len(uploads) :
        /\ Status(id) = "Hidden"
        /\ uploads[id].size = 1
        /\ uploads[id].extension \in Extensions
        /\ uploads[id].post_id \in Posts

\* C25: a record is Initialized only from its insertion to its first status
\* change: no step of a request or of a sweep pass gives the status
\* Initialized to a record that has another status.
C25_InitializedOnlyAtCreation ==
    [][\A id \in 1..Len(uploads) :
          Status(id) # "Initialized"
          => uploads'[id].file_status # "Initialized"]_vars

\* a write-chunk request took the record to Writing and back to Allocated
C25_Witness ==
    \E p \in Procs :
        /\ Done(p) /\ req[p].op = "write"
        /\ req[p].t1 = "Some" /\ req[p].t2 = "Some"
        /\ Status(req[p].id) = "Allocated"

\* the states of one file: absent, empty, one byte long
FileStates == {Absent, <<>>, <<1>>}

\* pass s unpublishes the upload id in the step, with success
SweepUnpublishOk(s, id) ==
    /\ SweepUnpublish(s)
    /\ id \notin sw[s].unp /\ id \in sw'[s].unp
    /\ pub'[id] = Absent /\ priv'[id] = Absent

\* C26: unpublish is idempotent: whether the public and the private file of
\* the upload are present or absent, a call that meets no error of the file
\* system other than NotFound succeeds and leaves both absent, and a second
\* call on the same id succeeds too and changes nothing; so a pass can always
\* unpublish the rows it holds, also those another pass has unpublished.
C26_UnpublishIsIdempotent ==
    /\ [](/\ \A pubf \in FileStates, privf \in FileStates :
                LET r1 == UnpublishFileResult(pubf, privf, "ok")
                    r2 == UnpublishFileResult(r1.pub, r1.priv, "ok")
                IN /\ r1.ok /\ r1.pub = Absent /\ r1.priv = Absent
                   /\ r2.ok /\ r2.pub = r1.pub /\ r2.priv = r1.priv
          /\ \A s \in Sweepers :
                /\ (sw[s].pc = "unpub" /\ Quiet)
                      => \A id \in sw[s].todo : ENABLED SweepUnpublishOk(s, id)
                /\ \A id \in sw[s].unp : FilesAbsent(id))
    /\ [][\A s \in Sweepers, id \in 1..Len(uploads) :
            (/\ sw[s].pc = "unpub" /\ id \in sw[s].todo
             /\ FilesAbsent(id) /\ id \in sw'[s].unp)
            => (pub' = pub /\ priv' = priv)]_vars

\* two passes have both unpublished the same upload with success
C26_Witness ==
    \E s \in Sweepers, t \in Sweepers, id \in 1..Len(uploads) :
        /\ s # t
        /\ id \in sw[s].unp /\ id \in sw[t].unp
        /\ FilesAbsent(id)
        /\ uploads[id].size > 0

\* the page count that the page function reports for the ledger as it is
ReportedPageCount(w) == DivCeil(Cardinality(Candidates(uploads, aged)), w.page_size)

\* C27: iterate_pages asks for page 0 first and then for the pages 1, 2, ...
\* one by one, each once; a page that is returned is yielded to the pass under
\* the same index, with the page count reported for that very page; after the
\* pass is done with page p the next page is asked for only when p + 1 is
\* below that latest page count, and the stream ends otherwise.
C27_PagesInOrder ==
    [][\A s \in Sweepers :
          LET w == sw[s]
              v == sw'[s]
          IN /\ (w.pc = "idle" /\ v.pc # "idle") => (v.pc = "count" /\ v.page_id = 0)
             /\ (v.pc = "count" /\ v # w) => w.pc \in {"idle", "unpub"}
             /\ (w.pc = "count" /\ v.pc = "claim")
                   => (v.page_id = w.page_id /\ v.page_count = ReportedPageCount(w))
             /\ (w.pc = "claim" /\ v # w)
                   => (v.pc = "unpub" /\ v.page_id = w.page_id /\ v.page_count = w.page_count)
             /\ (w.pc = "unpub" /\ v.pc = "unpub")
                   => (v.page_id = w.page_id /\ v.page_count = w.page_count)
             /\ (w.pc = "unpub" /\ v.pc = "count")
                   => (v.page_id = w.page_id + 1 /\ w.page_id + 1 < w.page_count)
             /\ (w.pc = "unpub" /\ w.todo = {} /\ v # w /\ w.page_id + 1 >= w.page_count)
                   => (v.pc = "done" /\ v.err = "Ok" /\ v.page_id = w.page_id)]_vars

\* over three candidates with page size 1, page 0 reported three pages and
\* page 1 two: the stream has ended after page 1 without asking for page 2
C27_Witness ==
    \E s \in Sweepers :
        /\ sw[s].pc = "done" /\ sw[s].err = "Ok"
        /\ sw[s].page_size = 1 /\ sw[s].page_id = 1 /\ sw[s].page_count = 2
        /\ sw[s].items # {}
        /\ Cardinality({id \in 1..Len(uploads) : Status(id) = "Hidden"}) = 2

\* what get_limit_offset_and_page_id answers to the page the pass asks for
PageAnswer(w) ==
    GetLimitOffsetAndPageId(w.page_id, w.page_size, ReportedPageCount(w)).err

\* C28: when the page function answers PageDoesNotExist, also to the very
\* first request over a ledger without candidates, the stream ends without an
\* error: the pass changes nothing more, takes no further step and returns
\* success.
C28_PageDoesNotExistEndsStream ==
    /\ [][\A s \in Sweepers :
            (/\ sw[s].pc = "count" /\ sw[s].page_size >= 1
             /\ PageAnswer(sw[s]) = "PageDoesNotExist"
             /\ sw'[s] # sw[s] /\ sw'[s].err # "Sqlx")
            => (/\ sw'[s].pc = "done" /\ sw'[s].err = "Ok"
                /\ uploads' = uploads /\ priv' = priv /\ pub' = pub)]_vars
    /\ [](\A s \in Sweepers :
            (sw[s].pc = "done" /\ sw[s].err = "Ok")
            => (~ENABLED PassStep(s) /\ ENABLED SweepReturn(s)))

\* the first request of a pass over a ledger without candidates was answered
\* PageDoesNotExist and the pass has ended with success
C28_Witness ==
    \E s \in Sweepers :
        /\ sw[s].pc = "done" /\ sw[s].err = "Ok"
        /\ sw[s].page_size >= 1 /\ sw[s].page_id = 0 /\ sw[s].page_count = 0
        /\ Len(uploads) >= 1
        /\ Candidates(uploads, aged) = {}

\* errors of the page function other than PageDoesNotExist
OtherErrors == {"Sqlx", "InvalidPagination"}

\* C29: when the page function returns an error other than PageDoesNotExist,
\* the stream yields that error and ends: the pass asks for no further page,
\* changes nothing more and returns that very error to its caller.
C29_OtherErrorEndsPass ==
    /\ [][\A s \in Sweepers :
            SweepCountFails(s)
            => (/\ sw'[s].pc = "done" /\ sw'[s].err = "Sqlx"
                /\ sw'[s].page_id = sw[s].page_id
                /\ uploads' = uploads /\ priv' = priv /\ pub' = pub)]_vars
    /\ [](\A s \in Sweepers :
            /\ \A e \in OtherErrors :
                  LET v == IteratePagesAfterError(sw[s], e)
                  IN v.pc = "done" /\ v.err = e
            /\ (sw[s].pc = "done" /\ sw[s].err \in OtherErrors)
                  => (~ENABLED PassStep(s) /\ ENABLED SweepReturn(s)))

\* page 0 was yielded and its rows were hidden, the request for page 1 has
\* failed and the pass has ended with the error
C29_Witness ==
    \E s \in Sweepers :
        /\ sw[s].pc = "done" /\ sw[s].err = "Sqlx"
        /\ sw[s].page_id = 1 /\ sw[s].items # {}
        /\ \A id \in sw[s].items : Status(id) = "Hidden"
        /\ Candidates(uploads, aged) # {}

\* a write-chunk request found the upload Allocated, its storage write
\* succeeded, it has returned and nobody else wrote the record or its files
WroteAlone(p) ==
    /\ Done(p) /\ req[p].op = "write"
    /\ req[p].seen = "Allocated" /\ req[p].sto = "ok"
    /\ ~req[p].interf

\* C30: a write-chunk request that starts on an Allocated upload and whose
\* storage write succeeds, with nothing else going on, returns Ok after both
\* of its transitions and leaves the record Allocated, whether the bytes of
\* the file cover the declared size in part, in full or beyond.
C30_WriteLeavesAllocated ==
    \A p \in Procs :
        WroteAlone(p) =>
            /\ Status(req[p].id) = "Allocated"
            /\ req[p].err = "Ok"
            /\ req[p].t1 = "Some" /\ req[p].t2 = "Some"

\* the chunk that completes a file of two bytes has been written and the
\* record is Allocated
C30_Witness ==
    \E p \in Procs :
        /\ WroteAlone(p)
        /\ uploads[req[p].id].size = 2
        /\ priv[req[p].id] = ClientFile(2, 1)
        /\ Status(req[p].id) = "Allocated"

\* a hide request of the author that found the upload Published
HidesPublished(p) == req[p].op = "hide" /\ req[p].seen = "Published"

\* C31: a hide request of the author on a Published upload, alone and without
\* storage failure, takes the record from Published to Hiding, then removes
\* the files, then takes it from Hiding to Hidden: while the files are still
\* to be removed the status is Hiding and the files are there, after the
\* removal it is Hiding with both files absent, and the request ends with Ok,
\* status Hidden and both files absent.
C31_HideSequence ==
    /\ [](\A p \in Procs :
            HidesPublished(p) =>
                /\ req[p].pc = "h_set1" => Status(req[p].id) = "Published"
                /\ req[p].pc = "h_unpub"
                      => (/\ Status(req[p].id) = "Hiding" /\ req[p].t1 = "Some"
                          /\ pub[req[p].id] # Absent /\ priv[req[p].id] # Absent)
                /\ req[p].pc = "h_set2"
                      => (/\ Status(req[p].id) = "Hiding" /\ req[p].sto = "ok"
                          /\ FilesAbsent(req[p].id))
                /\ (Done(p) /\ req[p].sto = "ok")
                      => (/\ Status(req[p].id) = "Hidden" /\ FilesAbsent(req[p].id)
                          /\ req[p].t1 = "Some" /\ req[p].t2 = "Some"
                          /\ req[p].err = "Ok"))
    /\ [][\A p \in Procs, id \in 1..Len(uploads) :
            (HidesPublished(p)' /\ req'[p].id = id
             /\ uploads'[id].file_status # Status(id))
            => <<Status(id), uploads'[id].file_status>>
                    \in {<<"Published", "Hiding">>, <<"Hiding", "Hidden">>}]_vars

\* a published upload of two bytes has been hidden
C31_Witness ==
    \E p \in Procs :
        /\ HidesPublished(p) /\ Done(p) /\ req[p].err = "Ok"
        /\ Status(req[p].id) = "Hidden" /\ FilesAbsent(req[p].id)
        /\ uploads[req[p].id].size = 2

\* C32: once allocate has succeeded for a create request, and before any chunk
\* is written, the private file of the upload exists and is exactly as long
\* as the declared size.
C32_AllocateExtendsToSize ==
    \A p \in Procs :
        (req[p].op = "create" /\ req[p].sto = "ok" /\ ~req[p].interf)
        => (/\ priv[req[p].id] # Absent
            /\ Len(priv[req[p].id]) = uploads[req[p].id].size)

\* C33: in every state, under any interleaving of the author's requests and
\* sweep passes, an upload whose public file exists has status Publishing,
\* Published or Hiding.
C33_PublicFileImpliesStatus ==
    \A id \in 1..Len(uploads) :
        pub[id] # Absent => Status(id) \in {"Publishing", "Published", "Hiding"}

\* C34: in every state reached by the author's requests alone (no sweep pass
\* was started), under any interleaving, an upload whose status is Published
\* has both its public and its private file.
C34_PublishedHasFiles ==
    nsweep = 0 =>
        \A id \in 1..Len(uploads) :
            Status(id) = "Published" => (pub[id] # Absent /\ priv[id] # Absent)

\* worker p is streaming a chunk into the private file of its upload
Streaming(p) == req[p].op = "write" /\ req[p].pc = "w_store"

\* C35: at most one chunk write streams into the private file of an upload at
\* a time, the status of the upload is Writing while one does, and no finalize
\* is at its copy to the public directory for that upload meanwhile.
C35_OneWriterAtATime ==
    \A p \in Procs :
        Streaming(p) =>
            /\ Status(req[p].id) = "Writing"
            /\ \A q \in Procs :
                  (q # p /\ req[q].id = req[p].id)
                  => (~Streaming(q) /\ req[q].pc # "f_pub")

\* C36: in a create request the transition from Initialized to Allocated that
\* follows a successful allocate is never rejected, so the unwrap of its
\* result does not panic, whatever a sweep pass does meanwhile.
C36_CreateUnwrapNeverPanics ==
    \A p \in Procs :
        req[p].op = "create" => (req[p].t2 # "None" /\ req[p].err # "Panic")

\* C37: a finalize request that returns success has itself performed both
\* transitions, to Publishing and to Published, and the status of the upload
\* is Published at the step in which it returns.
C37_FinalizeOkMeansPublished ==
    /\ [](\A p \in Procs :
            (Done(p) /\ req[p].op = "finalize" /\ req[p].err = "Ok")
            => (req[p].t1 = "Some" /\ req[p].t2 = "Some"))
    /\ [][\A p \in Procs :
            (~Done(p) /\ Done(p)' /\ req'[p].op = "finalize" /\ req'[p].err = "Ok")
            => uploads'[req'[p].id].file_status = "Published"]_vars

\* C38: every chunk is written inside the declared extent of its upload: a
\* write-chunk request at its storage write has a range that ends below the
\* record's size, and the private file is never longer than that size.
C38_WritesWithinExtent ==
    /\ \A p \in Procs :
          Streaming(p) => req[p].range.last < uploads[req[p].id].size
    /\ \A id \in 1..Len(uploads) :
          priv[id] # Absent => Len(priv[id]) <= uploads[id].size

\* worker p takes a step of its own request
OwnStep(p) == req'[p].pc # req[p].pc \/ req'[p].tx # req[p].tx

\* C39: a write-chunk request whose transition to Writing was rejected changes
\* no status afterwards: in particular its revert after a range mismatch does
\* not take the record from Writing, set by another request that is still
\* streaming, back to Allocated.
C39_FailedWriteChangesNoStatus ==
    [][\A p \in Procs :
          (req[p].op = "write" /\ req[p].t1 = "None" /\ OwnStep(p))
          => uploads' = uploads]_vars

Waiting(id) ==
    IF nsweep >= 1 /\ id <= Len(uploads) THEN Candidate(uploads, aged, id) ELSE FALSE

Reclaimed(id) ==
    IF id <= Len(uploads) THEN Status(id) = "Hidden" /\ FilesAbsent(id) ELSE FALSE

\* C40: under repeated passes with page size >= 1, without storage failure
\* and without new requests, every upload that satisfies the candidate
\* predicate once the passes have begun (Initialized, Allocated, Writing,
\* Publishing or Hiding and older than max_age, or Hiding at any age) is
\* Hidden in the end: a row that one pass skips is taken by a later one.
C40_CandidatesAreHiddenInTheEnd ==
    \A id \in Ids : Waiting(id) ~> Reclaimed(id)

\* the first pass went through page 0 and was refused page 1 while a
\* candidate was left: the second pass has hidden that one too
C40_Witness ==
    /\ nsweep = 2
    /\ Len(uploads) = 2
    /\ \A id \in 1..Len(uploads) : Status(id) = "Hidden" /\ id \in aged
    /\ \E s \in Sweepers :
        /\ sw[s].pc = "done" /\ sw[s].err = "Ok"
        /\ sw[s].page_size = 1 /\ sw[s].items = {2}

====
